---- MODULE Spec2Model ----
(***************************************************************************)
(* State-machine model of youtube_gui_downloader.py: the YouTubeMP3-       *)
(* Downloader window, its download worker threads and the pygame mixer.    *)
(*                                                                         *)
(* Every handler of the class is one action that may be invoked whenever   *)
(* the interactive thread is idle: the handlers are public methods and     *)
(* carry their own guards (is_downloading, pygame_enabled), which is what  *)
(* the model exercises.  A worker thread is a sequence of steps; the       *)
(* interactive thread and the workers interleave between steps.            *)
(***************************************************************************)
EXTENDS Naturals, Integers, Sequences, FiniteSets, TLC

\* ------------------------------------------------------------- bounds ----
MaxSessions == 2     \* sessions start_download_thread may accept in one run
MaxWorkers  == 2     \* worker threads alive at the same time

Workers == 1..MaxWorkers

\* ------------------------------------------------------- input domains ----
NoFile == [dir |-> "", stem |-> <<>>, ext |-> ""]      \* Python None

\* text of the URL entry: pad = surrounding blanks, host, length of the id
UrlEmpty   == [pad |-> FALSE, host |-> "",            idLen |-> 0]
UrlShort   == [pad |-> TRUE,  host |-> "youtu.be",    idLen |-> 11]
UrlNoId    == [pad |-> FALSE, host |-> "youtube.com", idLen |-> 10]
UrlOther   == [pad |-> FALSE, host |-> "example.com", idLen |-> 11]
UrlTexts   == {UrlEmpty, UrlShort, UrlNoId, UrlOther}

Folders      == {"Downloads", "missing"}
ExistingDirs == {"Downloads"}

Titles == {<<"a">>, <<"a", "/", "b">>}

Volumes == {5, 10}       \* tenths: the slider runs 0..1 in steps of 0.1

\* ------------------------------------------------------------ helpers ----
\* str.strip() of the entry text (src line 204)
strip(u) == [u EXCEPT !.pad = FALSE]

\* `not url` (src line 205): the stripped text is the empty string
IsEmptyUrl(u) == u.host = "" /\ u.idLen = 0

\* is_valid_youtube_url: known host followed by "/" and at least 11
\* characters of the identifier class; re.match anchors at the start only,
\* so surrounding blanks left in the text make it fail.
is_valid_youtube_url(u) ==
    /\ ~u.pad
    /\ u.host \in {"youtube.com", "youtu.be"}
    /\ u.idLen >= 11

\* folder.exists() and folder.is_dir() (src line 211)
folder_ok(f) == f \in ExistingDirs

\* title.replace("/", "_").replace("\\", "_") (src line 251)
RECURSIVE sanitize(_)
sanitize(t) ==
    IF t = <<>> THEN <<>>
    ELSE <<IF Head(t) \in {"/", "\\"} THEN "_" ELSE Head(t)>> \o sanitize(Tail(t))

\* folder / f"{title}.mp3" (src line 253)
mp3_path(f, t) == [dir |-> f, stem |-> sanitize(t), ext |-> "mp3"]

\* the names the extraction service may give the file it writes: the
\* template of line 236 is expanded by the service with its own rule for
\* separators, which either agrees with line 251 or keeps another form.
service_paths(f, t) ==
    {mp3_path(f, t), [dir |-> f, stem |-> t, ext |-> "mp3"]}

\* percent = min(downloaded_bytes / total_bytes * 100, 100) (src line 226)
percent_of(done, total) ==
    LET p == (done * 100) \div total IN IF p > 100 THEN 100 ELSE p

\* get_busy that also reports a paused stream as busy
get_busy_loaded(m) == m.state # "Stopped"

\* pygame.mixer.music.get_busy(): true only while a stream is playing
get_busy(m) == m.state = "Playing"

VARIABLES
    ffmpeg_on_path,                   \* shutil.which("ffmpeg") is not None
    pygame_enabled,
    is_downloading, last_downloaded_file,
    download_btn, progress, status_label,
    play_btn, pause_btn, stop_btn,    \* widget state and, for pause, text
    volume_var,
    music,                            \* pygame.mixer.music
    disk,                             \* files that exist
    log,                              \* yt_music_log.txt of each folder
    pc, w_url, w_folder, w_title,     \* worker threads and their locals
    outcome,                          \* how the session of a worker ended
    notice,                           \* message box of the last handler call
    started, successes                \* sessions accepted / reported success

ui_vars   == <<is_downloading, last_downloaded_file, download_btn, progress,
               status_label, play_btn, pause_btn, stop_btn, volume_var>>
widgets   == <<download_btn, progress, status_label, play_btn, pause_btn,
               stop_btn>>
env_vars  == <<ffmpeg_on_path, pygame_enabled>>
wrk_vars  == <<pc, w_url, w_folder, w_title, outcome>>
vars == <<ffmpeg_on_path, pygame_enabled,
          is_downloading, last_downloaded_file, download_btn, progress,
          status_label, play_btn, pause_btn, stop_btn, volume_var, music,
          disk, log, pc, w_url, w_folder, w_title, outcome, notice,
          started, successes>>

\* __init__ and setup_ui
Init ==
    /\ ffmpeg_on_path \in BOOLEAN
    /\ pygame_enabled \in BOOLEAN
    /\ is_downloading = FALSE
    /\ last_downloaded_file = NoFile
    /\ download_btn = "normal"
    /\ progress = 0
    /\ status_label = <<"Ready">>
    /\ play_btn = "disabled"
    /\ pause_btn = [state |-> "disabled", text |-> "Pause"]
    /\ stop_btn = "disabled"
    /\ volume_var = 5
    /\ music = [state |-> "Stopped", volume |-> 10]
    /\ disk = {}
    /\ log = [f \in ExistingDirs |-> <<>>]
    /\ pc = [t \in Workers |-> "none"]
    /\ w_url = [t \in Workers |-> UrlEmpty]
    /\ w_folder = [t \in Workers |-> ""]
    /\ w_title = [t \in Workers |-> <<>>]
    /\ outcome = [t \in Workers |-> "none"]
    /\ notice = "none"
    /\ started = 0
    /\ successes = 0

\* A message box is modal: while one opened by a worker is on screen the
\* interactive thread sits in the box's event loop and runs no handler.
Boxes == {"box_input_error", "box_folder_error", "box_ffmpeg",
          "box_download_error", "box_error", "box_success"}
UiIdle == \A t \in Workers : pc[t] \notin Boxes

\* ------------------------------------------------ start_download_thread --
\* start_download_thread without the guard of line 192
start_download_thread_unguarded ==
    /\ started < MaxSessions
    /\ \E t \in Workers :
         /\ pc[t] = "none"
         /\ \A s \in Workers : pc[s] = "none" => t <= s
         /\ pc' = [pc EXCEPT ![t] = "start"]
         /\ outcome' = [outcome EXCEPT ![t] = "running"]
    /\ is_downloading' = TRUE
    /\ download_btn' = "disabled"
    /\ progress' = 0
    /\ status_label' = <<"Starting download...">>
    /\ started' = started + 1
    /\ notice' = "none"
    /\ UNCHANGED <<env_vars, last_downloaded_file, play_btn, pause_btn,
                   stop_btn, volume_var, music, disk, log, w_url,
                   w_folder, w_title, successes>>

start_download_thread ==
    IF is_downloading
    THEN /\ notice' = "A download is already in progress."
         /\ UNCHANGED <<env_vars, ui_vars, music, disk, log, wrk_vars,
                        started, successes>>
    ELSE /\ started < MaxSessions
         /\ \E t \in Workers :
              /\ pc[t] = "none"
              /\ \A s \in Workers : pc[s] = "none" => t <= s
              /\ pc' = [pc EXCEPT ![t] = "start"]
              /\ outcome' = [outcome EXCEPT ![t] = "running"]
         /\ is_downloading' = TRUE
         /\ download_btn' = "disabled"
         /\ progress' = 0
         /\ status_label' = <<"Starting download...">>
         /\ started' = started + 1
         /\ notice' = "none"
         /\ UNCHANGED <<env_vars, last_downloaded_file, play_btn, pause_btn,
                        stop_btn, volume_var, music, disk, log, w_url,
                        w_folder, w_title, successes>>

\* ------------------------------------------------------ start_download --
\* check_ffmpeg that always reports the encoder as found
check_ffmpeg_always == TRUE

\* check_ffmpeg: true iff ffmpeg is found (it shows the error box otherwise)
check_ffmpeg == ffmpeg_on_path

\* lines 204-218: read and validate the URL, the folder and the encoder;
\* url_entry and folder_var are the texts the two entries hold at that time
validate_inputs(t, url_entry, folder_var) ==
    /\ pc[t] = "start"
    /\ LET url == strip(url_entry) IN
        /\ w_url' = [w_url EXCEPT ![t] = url]
        /\ IF IsEmptyUrl(url) \/ ~is_valid_youtube_url(url)
           THEN /\ pc' = [pc EXCEPT ![t] = "box_input_error"]
                /\ outcome' = [outcome EXCEPT ![t] = "InvalidUrl"]
                /\ UNCHANGED w_folder
           ELSE /\ w_folder' = [w_folder EXCEPT ![t] = folder_var]
                /\ IF ~folder_ok(folder_var)
                   THEN /\ pc' = [pc EXCEPT ![t] = "box_folder_error"]
                        /\ outcome' = [outcome EXCEPT ![t] = "InvalidFolder"]
                   ELSE IF ~check_ffmpeg
                   THEN /\ pc' = [pc EXCEPT ![t] = "box_ffmpeg"]
                        /\ outcome' = [outcome EXCEPT ![t] = "EncoderMissing"]
                   ELSE /\ pc' = [pc EXCEPT ![t] = "extract"]
                        /\ UNCHANGED outcome
    /\ UNCHANGED <<env_vars, ui_vars, music, disk, log, w_title, notice,
                   started, successes>>

\* an early return that forgets finalize_download
dismiss_warning_no_finalize(t) ==
    /\ pc[t] \in {"box_input_error", "box_folder_error", "box_ffmpeg"}
    /\ pc' = [pc EXCEPT ![t] = "none"]
    /\ w_url' = [w_url EXCEPT ![t] = UrlEmpty]
    /\ w_folder' = [w_folder EXCEPT ![t] = ""]
    /\ outcome' = [outcome EXCEPT ![t] = "none"]
    /\ UNCHANGED <<env_vars, ui_vars, music, disk, log, w_title, notice,
                   started, successes>>

\* the three warning boxes of lines 206, 212 and 30 are dismissed; the
\* worker goes on to finalize_download
dismiss_warning(t) ==
    /\ pc[t] \in {"box_input_error", "box_folder_error", "box_ffmpeg"}
    /\ pc' = [pc EXCEPT ![t] = "finalize"]
    /\ UNCHANGED <<env_vars, ui_vars, music, disk, log, w_url, w_folder,
                   w_title, outcome, notice, started, successes>>

\* a failure raised inside the try block of lines 248-264
raise_in_try(t, kind) ==
    /\ pc' = [pc EXCEPT ![t] = IF kind = "ExtractionFailed"
                                THEN "box_download_error" ELSE "box_error"]
    /\ outcome' = [outcome EXCEPT ![t] = kind]

\* ydl.extract_info(url, download=False) returns the title or raises
extract_info(t) ==
    /\ pc[t] = "extract"
    /\ \/ \E title \in Titles :
             /\ w_title' = [w_title EXCEPT ![t] = title]
             /\ pc' = [pc EXCEPT ![t] = "download"]
             /\ UNCHANGED outcome
       \/ \E kind \in {"ExtractionFailed", "UnexpectedFailure"} :
             /\ raise_in_try(t, kind)
             /\ UNCHANGED w_title
    /\ UNCHANGED <<env_vars, ui_vars, music, disk, log, w_url, w_folder,
                   notice, started, successes>>

\* progress_hook, status "downloading" (lines 223-229), run by the worker
progress_hook_downloading(t) ==
    /\ pc[t] = "download"
    /\ \E done \in {1, 3}, total \in {2} :
          /\ progress' = percent_of(done, total)
          /\ status_label' = <<"Downloading", percent_of(done, total)>>
    /\ UNCHANGED <<env_vars, is_downloading, last_downloaded_file,
                   download_btn, play_btn, pause_btn, stop_btn, volume_var,
                   music, disk, log, wrk_vars, notice, started, successes>>

\* progress_hook, status "finished" (lines 230-232), run by the worker
progress_hook_finished(t) ==
    /\ pc[t] = "download"
    /\ progress' = 100
    /\ status_label' = <<"Converting to MP3...">>
    /\ pc' = [pc EXCEPT ![t] = "convert"]
    /\ UNCHANGED <<env_vars, is_downloading, last_downloaded_file,
                   download_btn, play_btn, pause_btn, stop_btn, volume_var,
                   music, disk, log, w_url, w_folder, w_title, outcome,
                   notice, started, successes>>

\* ydl.download([url]) raises while downloading or converting
download_raises(t) ==
    /\ pc[t] \in {"download", "convert"}
    /\ \E kind \in {"ExtractionFailed", "UnexpectedFailure"} :
          raise_in_try(t, kind)
    /\ UNCHANGED <<env_vars, ui_vars, music, disk, log, w_url, w_folder,
                   w_title, notice, started, successes>>

\* ydl.download([url]) returns: the service has written its file, and
\* line 253 binds the path computed from the title
download_returns(t) ==
    /\ pc[t] = "convert"
    /\ \E written \in service_paths(w_folder[t], w_title[t]) :
          disk' = disk \cup {written}
    /\ last_downloaded_file' = mp3_path(w_folder[t], w_title[t])
    /\ pc' = [pc EXCEPT ![t] = "log"]
    /\ UNCHANGED <<env_vars, is_downloading, download_btn, progress,
                   status_label, play_btn, pause_btn, stop_btn, volume_var,
                   music, log, w_url, w_folder, w_title, outcome, notice,
                   started, successes>>

\* write_log that opens the file but writes nothing
write_log_no_append(t) ==
    /\ pc[t] = "log"
    /\ \/ /\ pc' = [pc EXCEPT ![t] = "report"]
          /\ UNCHANGED <<outcome, log>>
       \/ /\ raise_in_try(t, "UnexpectedFailure")
          /\ UNCHANGED log
    /\ UNCHANGED <<env_vars, ui_vars, music, disk, w_url, w_folder, w_title,
                   notice, started, successes>>

\* lines 255-257: append one record to yt_music_log.txt, or open() raises
write_log(t) ==
    /\ pc[t] = "log"
    /\ \/ /\ log' = [log EXCEPT ![w_folder[t]] =
                        Append(@, <<w_url[t], last_downloaded_file>>)]
          /\ pc' = [pc EXCEPT ![t] = "report"]
          /\ UNCHANGED outcome
       \/ /\ raise_in_try(t, "UnexpectedFailure")
          /\ UNCHANGED log
    /\ UNCHANGED <<env_vars, ui_vars, music, disk, w_url, w_folder, w_title,
                   notice, started, successes>>

\* file name without the directory: Path.name
name_of(p) == <<p.stem, p.ext>>

\* lines 259-260: status line and the "Success" box
report_success(t) ==
    /\ pc[t] = "report"
    /\ status_label' = <<"Downloaded", name_of(last_downloaded_file)>>
    /\ outcome' = [outcome EXCEPT ![t] = "Success"]
    /\ successes' = successes + 1
    /\ pc' = [pc EXCEPT ![t] = "box_success"]
    /\ UNCHANGED <<env_vars, is_downloading, last_downloaded_file,
                   download_btn, progress, play_btn, pause_btn, stop_btn,
                   volume_var, music, disk, log, w_url, w_folder, w_title,
                   notice, started>>

\* the "Success" box is dismissed; lines 261-264 enable the player
dismiss_success(t) ==
    /\ pc[t] = "box_success"
    /\ IF pygame_enabled
       THEN /\ play_btn' = "normal"
            /\ pause_btn' = [pause_btn EXCEPT !.state = "normal"]
            /\ stop_btn' = "normal"
       ELSE UNCHANGED <<play_btn, pause_btn, stop_btn>>
    /\ pc' = [pc EXCEPT ![t] = "finalize"]
    /\ UNCHANGED <<env_vars, is_downloading, last_downloaded_file,
                   download_btn, progress, status_label, volume_var, music,
                   disk, log, w_url, w_folder, w_title, outcome, notice,
                   started, successes>>

\* the error box of line 267 or 270 is dismissed; line 268 or 271
dismiss_error(t) ==
    /\ pc[t] \in {"box_download_error", "box_error"}
    /\ status_label' = <<"Download failed.">>
    /\ pc' = [pc EXCEPT ![t] = "finalize"]
    /\ UNCHANGED <<env_vars, is_downloading, last_downloaded_file,
                   download_btn, progress, play_btn, pause_btn, stop_btn,
                   volume_var, music, disk, log, w_url, w_folder, w_title,
                   outcome, notice, started, successes>>

\* finalize_download, line 277.  The locals of start_download are dead from
\* here on and are cleared.
finalize_download(t) ==
    /\ pc[t] = "finalize"
    /\ is_downloading' = FALSE
    /\ pc' = [pc EXCEPT ![t] = "enable_button"]
    /\ w_url' = [w_url EXCEPT ![t] = UrlEmpty]
    /\ w_folder' = [w_folder EXCEPT ![t] = ""]
    /\ w_title' = [w_title EXCEPT ![t] = <<>>]
    /\ outcome' = [outcome EXCEPT ![t] = "none"]
    /\ UNCHANGED <<env_vars, last_downloaded_file, download_btn, progress,
                   status_label, play_btn, pause_btn, stop_btn, volume_var,
                   music, disk, log, notice, started, successes>>

\* finalize_download, line 278; the worker thread then ends
finalize_button(t) ==
    /\ pc[t] = "enable_button"
    /\ download_btn' = "normal"
    /\ pc' = [pc EXCEPT ![t] = "none"]
    /\ UNCHANGED <<env_vars, is_downloading, last_downloaded_file, progress,
                   status_label, play_btn, pause_btn, stop_btn, volume_var,
                   music, disk, log, w_url, w_folder, w_title, outcome,
                   notice, started, successes>>

\* ------------------------------------------------------------ playback --
PlaybackUnavailable ==
    /\ notice' = "Playback Unavailable"
    /\ UNCHANGED <<env_vars, ui_vars, music, disk, log, wrk_vars, started,
                   successes>>

play_audio ==
    IF ~pygame_enabled THEN PlaybackUnavailable
    ELSE IF last_downloaded_file = NoFile \/ last_downloaded_file \notin disk
    THEN /\ notice' = "No File"
         /\ UNCHANGED <<env_vars, ui_vars, music, disk, log, wrk_vars,
                        started, successes>>
    ELSE \/ /\ music' = [state |-> "Playing", volume |-> volume_var]
            /\ status_label' = <<"Playing", name_of(last_downloaded_file)>>
            /\ pause_btn' = [pause_btn EXCEPT !.state = "normal"]
            /\ notice' = "none"
            /\ UNCHANGED <<env_vars, is_downloading, last_downloaded_file,
                           download_btn, progress, play_btn, stop_btn,
                           volume_var, disk, log, wrk_vars, started,
                           successes>>
         \/ /\ notice' = "Playback Error"       \* load raised pygame.error
            /\ UNCHANGED <<env_vars, ui_vars, music, disk, log, wrk_vars,
                           started, successes>>

\* pygame.mixer.music.unpause(): resumes a paused stream, else no effect
unpause(m) == IF m.state = "Paused" THEN [m EXCEPT !.state = "Playing"] ELSE m

pause_audio ==
    IF ~pygame_enabled THEN PlaybackUnavailable
    ELSE /\ notice' = "none"
         /\ IF get_busy(music)
            THEN /\ music' = [music EXCEPT !.state = "Paused"]
                 /\ status_label' = <<"Paused">>
                 /\ pause_btn' = [pause_btn EXCEPT !.text = "Resume"]
            ELSE /\ music' = unpause(music)
                 /\ IF last_downloaded_file = NoFile
                    THEN UNCHANGED <<status_label, pause_btn>> \* .name raises
                    ELSE /\ status_label' =
                              <<"Playing", name_of(last_downloaded_file)>>
                         /\ pause_btn' = [pause_btn EXCEPT !.text = "Pause"]
         /\ UNCHANGED <<env_vars, is_downloading, last_downloaded_file,
                        download_btn, progress, play_btn, stop_btn,
                        volume_var, disk, log, wrk_vars, started, successes>>

\* stop_audio without the guard of line 314
stop_audio_unguarded ==
    /\ music' = [music EXCEPT !.state = "Stopped"]
    /\ status_label' = <<"Playback stopped.">>
    /\ pause_btn' = [pause_btn EXCEPT !.text = "Pause"]
    /\ notice' = "none"
    /\ UNCHANGED <<env_vars, is_downloading, last_downloaded_file,
                   download_btn, progress, play_btn, stop_btn,
                   volume_var, disk, log, wrk_vars, started, successes>>

stop_audio ==
    IF ~pygame_enabled THEN PlaybackUnavailable
    ELSE /\ music' = [music EXCEPT !.state = "Stopped"]
         /\ status_label' = <<"Playback stopped.">>
         /\ pause_btn' = [pause_btn EXCEPT !.text = "Pause"]
         /\ notice' = "none"
         /\ UNCHANGED <<env_vars, is_downloading, last_downloaded_file,
                        download_btn, progress, play_btn, stop_btn,
                        volume_var, disk, log, wrk_vars, started, successes>>

\* set_volume(val): the slider has stored val in volume_var
set_volume(val) ==
    /\ notice' = "none"
    /\ IF ~pygame_enabled
       THEN UNCHANGED <<volume_var, music>>
       ELSE /\ volume_var' = val
            /\ music' = [music EXCEPT !.volume = val]
    /\ UNCHANGED <<env_vars, is_downloading, last_downloaded_file,
                   download_btn, progress, status_label, play_btn, pause_btn,
                   stop_btn, disk, log, wrk_vars, started, successes>>

\* the stream started by music.play() reaches its end
music_ends ==
    /\ music.state = "Playing"
    /\ music' = [music EXCEPT !.state = "Stopped"]
    /\ UNCHANGED <<env_vars, ui_vars, disk, log, wrk_vars, notice, started,
                   successes>>

\* ------------------------------------------------------ specification --
WorkerStep(t) ==
    \/ \E u \in UrlTexts, f \in Folders : validate_inputs(t, u, f)
    \/ dismiss_warning(t)
    \/ extract_info(t)
    \/ progress_hook_downloading(t)
    \/ progress_hook_finished(t)
    \/ download_raises(t)
    \/ download_returns(t)
    \/ write_log(t)
    \/ report_success(t)
    \/ dismiss_success(t)
    \/ dismiss_error(t)
    \/ finalize_download(t)
    \/ finalize_button(t)

Next ==
    \/ UiIdle /\ start_download_thread
    \/ \E t \in Workers : WorkerStep(t)
    \/ UiIdle /\ play_audio
    \/ UiIdle /\ pause_audio
    \/ UiIdle /\ stop_audio
    \/ UiIdle /\ \E v \in Volumes : set_volume(v)
    \/ music_ends

Spec == Init /\ [][Next]_vars

\* What a user of the window can do: Tk runs the command of a button only
\* while the button's state is "normal" (setup_ui creates the three player
\* buttons disabled), and the volume slider exists only when pygame_enabled.
\* Every behaviour of GuiSpec is a behaviour of Spec.
GuiNext ==
    \/ UiIdle /\ download_btn = "normal" /\ start_download_thread
    \/ \E t \in Workers : WorkerStep(t)
    \/ UiIdle /\ play_btn = "normal" /\ play_audio
    \/ UiIdle /\ pause_btn.state = "normal" /\ pause_audio
    \/ UiIdle /\ stop_btn = "normal" /\ stop_audio
    \/ UiIdle /\ pygame_enabled /\ \E v \in Volumes : set_volume(v)
    \/ music_ends

GuiSpec == Init /\ [][GuiNext]_vars

\* Every worker that can move to another statement eventually does: the
\* thread is scheduled, the service call returns or raises, and a message
\* box is dismissed.
Advance(t) == WorkerStep(t) /\ pc'[t] # pc[t]

\* The download side on its own.  The playback handlers neither read nor
\* write is_downloading, download_btn or a worker's position, and no step
\* of theirs enables or disables a worker step, so what the workers
\* eventually do is decided by these actions alone.
DownloadNext ==
    \/ UiIdle /\ start_download_thread
    \/ \E t \in Workers : WorkerStep(t)

FairSpec ==
    Init /\ [][DownloadNext]_vars /\ \A t \in Workers : WF_vars(Advance(t))

\* ------------------------------------------------------------- claims ---
InFlight == {t \in Workers : pc[t] \notin {"none", "enable_button"}}

Ended(t) == outcome[t] \notin {"none", "running"}

Errors == {"InvalidUrl", "InvalidFolder", "EncoderMissing",
           "ExtractionFailed", "UnexpectedFailure"}

RECURSIVE LinesIn(_)
LinesIn(dirs) ==
    IF dirs = {} THEN 0
    ELSE LET d == CHOOSE x \in dirs : TRUE
         IN Len(log[d]) + LinesIn(dirs \ {d})

LogLines == LinesIn(ExistingDirs)

PlayerState == <<music, status_label, play_btn, pause_btn, stop_btn,
                 volume_var>>

\* C1: at most one download session is in flight, and an invocation of
\* start_download_thread while is_downloading is true only shows the
\* warning: no worker is started and no worker state changes.
C1_OneSessionInFlight ==
    /\ [](Cardinality(InFlight) = IF is_downloading THEN 1 ELSE 0)
    /\ [][(start_download_thread /\ is_downloading) =>
             /\ pc' = pc
             /\ started' = started
             /\ is_downloading'
             /\ notice' = "A download is already in progress."]_vars

C1_Witness ==
    /\ is_downloading
    /\ InFlight # {}
    /\ notice = "A download is already in progress."

\* C2: the playback controls are enabled only if a session has succeeded
\* and the file bound as last_downloaded_file exists on disk.
C2_ControlsNeedFile ==
    (play_btn = "normal" \/ pause_btn.state = "normal" \/ stop_btn = "normal")
        => (successes >= 1 /\ last_downloaded_file \in disk)

\* C3 as stated: without ffmpeg every session ends with EncoderMissing.
C3_AlwaysEncoderMissing ==
    ~ffmpeg_on_path =>
        \A t \in Workers : Ended(t) => outcome[t] = "EncoderMissing"

\* C3 amended: without ffmpeg no session reaches the extraction service; it
\* ends with InvalidUrl if the URL is invalid, else with InvalidFolder if
\* the folder is invalid, else with EncoderMissing.
C3_EncoderMissing ==
    ~ffmpeg_on_path =>
        \A t \in Workers :
            /\ pc[t] \notin {"extract", "download", "convert", "log", "report",
                              "box_success", "box_download_error", "box_error"}
            /\ Ended(t) =>
                 outcome[t] =
                    IF IsEmptyUrl(w_url[t]) \/ ~is_valid_youtube_url(w_url[t])
                    THEN "InvalidUrl"
                    ELSE IF ~folder_ok(w_folder[t]) THEN "InvalidFolder"
                    ELSE "EncoderMissing"
            /\ successes = 0 /\ LogLines = 0 /\ disk = {}

C3_Witness ==
    /\ ~ffmpeg_on_path
    /\ \E t \in Workers :
          /\ pc[t] = "finalize"
          /\ outcome[t] = "EncoderMissing"
          /\ is_valid_youtube_url(w_url[t])
          /\ folder_ok(w_folder[t])

\* C4: the log holds one line per session that reported success (plus the
\* line of a session that has written it and is about to report), and the
\* line of a succeeding session carries its URL and its output path.
C4_OneLinePerSuccess ==
    /\ LogLines = successes + Cardinality({t \in Workers : pc[t] = "report"})
    /\ \A t \in Workers :
          pc[t] \in {"report", "box_success"} =>
              /\ Len(log[w_folder[t]]) >= 1
              /\ log[w_folder[t]][Len(log[w_folder[t]])] =
                    <<w_url[t], mp3_path(w_folder[t], w_title[t])>>
              /\ is_valid_youtube_url(w_url[t])

C4_Witness ==
    /\ \A t \in Workers : pc[t] = "none"
    /\ started = 2
    /\ successes = 1
    /\ LogLines = 1

\* C5: with the mixer available, pause while Playing pauses and relabels
\* the control "Resume"; pause while Paused resumes and relabels it
\* "Pause"; stop from any state stops and leaves the label "Pause".
C5_PauseResumeStop ==
    [][pygame_enabled =>
         /\ (pause_audio /\ music.state = "Playing") =>
               (music'.state = "Paused" /\ pause_btn'.text = "Resume")
         /\ (pause_audio /\ music.state = "Paused") =>
               (music'.state = "Playing" /\ pause_btn'.text = "Pause")
         /\ stop_audio =>
               (music'.state = "Stopped" /\ pause_btn'.text = "Pause")]_vars

C5_Witness ==
    /\ pygame_enabled
    /\ music.state = "Paused"
    /\ pause_btn.text = "Resume"
    /\ status_label = <<"Paused">>

\* C6 as stated: without the mixer, play, pause, stop and set_volume all
\* leave the player untouched and show the "unavailable" warning.
C6_AllFourWarn ==
    [][~pygame_enabled =>
         ((play_audio \/ pause_audio \/ stop_audio
             \/ \E v \in Volumes : set_volume(v)) =>
           /\ notice' = "Playback Unavailable"
           /\ UNCHANGED PlayerState)]_vars

\* C6 amended: without the mixer, play, pause and stop leave the player
\* untouched and show the "unavailable" warning; set_volume leaves the
\* player untouched and shows nothing.
C6_UnavailableNoOp ==
    [][~pygame_enabled =>
         /\ (play_audio \/ pause_audio \/ stop_audio) =>
               /\ notice' = "Playback Unavailable"
               /\ UNCHANGED PlayerState
         /\ (\E v \in Volumes : set_volume(v)) =>
               /\ notice' = "none"
               /\ UNCHANGED PlayerState]_vars

C6_Witness ==
    /\ ~pygame_enabled
    /\ notice = "Playback Unavailable"
    /\ successes >= 1

\* C7: when a successful download binds a new last_downloaded_file, the
\* playback state is reset to Stopped and the pause control to "Pause".
C7_ResetOnNewFile ==
    [][(\E t \in Workers : download_returns(t)) =>
         (music'.state = "Stopped" /\ pause_btn'.text = "Pause")]_vars

\* C8: no step of a worker thread changes a widget.
C8_WorkerLeavesWidgets ==
    [][(\E t \in Workers : WorkerStep(t)) => UNCHANGED widgets]_vars

\* C9: after a session has failed, the status line no longer shows the
\* text set when the session was started.
C9_StatusShowsFailure ==
    \A t \in Workers :
        (pc[t] = "finalize" /\ outcome[t] \in Errors)
            => status_label # <<"Starting download...">>

\* C10: every accepted session eventually ends: its worker terminates, the
\* guard is reset and the download button is enabled again.
C10_SessionEnds ==
    /\ is_downloading ~> ~is_downloading
    /\ (download_btn = "disabled") ~> (download_btn = "normal")
    /\ \A t \in Workers : (pc[t] # "none") ~> (pc[t] = "none")

C10_Witness ==
    /\ started = MaxSessions
    /\ ~is_downloading
    /\ download_btn = "normal"
    /\ \A t \in Workers : pc[t] = "none"

TypeOK ==
    /\ is_downloading \in BOOLEAN
    /\ started \in 0..MaxSessions
    /\ successes \in 0..started

====
